---- MODULE Spec2Model ----
(***************************************************************************)
(* The persisted ordering engine of the service menu manager: the three    *)
(* ordered tables (service_sections, services, service_packages), the      *)
(* two-loop renumbering of DatabaseService.update*Order, the INSERTs of    *)
(* DatabaseService.create*, the soft delete and the ordered SELECTs of     *)
(* getMenuData.  Every SQL statement is one atomic step (pool.query runs   *)
(* each statement in its own implicit transaction).                        *)
(***************************************************************************)
EXTENDS Integers, Sequences, FiniteSets, TLC

\* ---------------------------------------------------------------- bounds
MaxRows == 3
MaxLen == 2
MaxDeletes == 1
PoolSize == 2

\* ------------------------------------------------------------- constants
OFFSET == 1000

RowIds == 1 .. MaxRows
Users == {101, 102}
Callers == {1, 2}
Tables == {"service_sections", "services", "service_packages"}
Orders == 1 .. MaxLen
CreateOrders == (1 .. MaxLen) \cup {OFFSET}

\* The parents there can be: the owners and the sections.
Parents == Users \cup RowIds

NoRow ==
    [tbl |-> "none", parent |-> 0, display_order |-> 0, is_active |-> FALSE, name |-> 0]

VARIABLES
    rows,      \* the three tables: row id -> row, NoRow where no row was inserted
    call,      \* per request handler: the running update*Order call
    alone,     \* per call: no other request wrote to the store since it started
    after1,    \* per call: the store when the first application of a repeated input ended
    inactive0, \* per call: the positions the inactive rows held when the request arrived
    members,   \* table package_services: the <<package id, service id>> rows
    api,       \* the client: its apiCall in progress and its cached addresses
    began,     \* per call compared with a run alone: the store when it started
    ui,        \* the client's screen: the menu it shows and what its dialogs sent last
    conns,     \* the clients of the connection pool: open transaction, uncommitted writes
    creating,  \* per request handler: the createPackage call in progress
    users,     \* table users: the owner rows
    posting    \* per request handler: the POST /api/users request in progress

vars ==
    <<rows, call, alone, after1, inactive0, members, api, began, ui, conns, creating,
      users, posting>>

\* --------------------------------------------------------------- helpers
\* The ids a list names.
Range(list) == {list[k].id : k \in DOMAIN list}

Exists(store, id) == id \in RowIds /\ store[id].tbl # "none"

InScope(store, r, tbl, parent) ==
    store[r].tbl = tbl /\ store[r].parent = parent

\* Variant: the statement without its id condition, "WHERE <parent column> = $3".
MatchRows_AnyId(store, tbl, id, parent) ==
    {r \in RowIds : InScope(store, r, tbl, parent)}

\* Variant: the statement without its parent condition, "WHERE id = $2".
MatchRows_AnyParent(store, tbl, id, parent) ==
    {r \in RowIds : r = id /\ store[r].tbl = tbl}

\* The rows a statement "WHERE id = $2 AND <parent column> = $3" matches.
MatchRows(store, tbl, id, parent) ==
    {r \in RowIds : r = id /\ InScope(store, r, tbl, parent)}

\* Variant: a table without its UNIQUE(<parent>, display_order) constraint.
OrderTaken_Never(store, tbl, parent, pos, self) == FALSE

\* Variant: one constraint UNIQUE(display_order) for the whole table.
OrderTaken_AnyParent(store, tbl, parent, pos, self) ==
    \E r \in RowIds \ {self} :
        store[r].tbl = tbl /\ store[r].display_order = pos

\* UNIQUE(user_id, display_order) / UNIQUE(section_id, display_order): another
\* row of the same table and parent, active or not, holds the position.
OrderTaken(store, tbl, parent, pos, self) ==
    \E r \in RowIds \ {self} :
        InScope(store, r, tbl, parent) /\ store[r].display_order = pos

\* Variant: the UPDATE on a table whose constraint is not enforced.
UpdateOrder_Unchecked(store, tbl, pos, id, parent) ==
    LET M == MatchRows(store, tbl, id, parent) IN
    IF M = {}
    THEN [status |-> "none", store |-> store]
    ELSE [status |-> "ok",
          store |-> [r \in RowIds |->
                       IF r \in M
                       THEN [store[r] EXCEPT !.display_order = pos]
                       ELSE store[r]]]

\* UPDATE <tbl> SET display_order = $1 WHERE id = $2 AND <parent> = $3
\* status "none": rowCount 0; "ok": the matched rows are written; "error": the
\* statement raised a unique violation and wrote nothing.
UpdateOrder(store, tbl, pos, id, parent) ==
    LET M == MatchRows(store, tbl, id, parent) IN
    IF M = {}
    THEN [status |-> "none", store |-> store]
    ELSE IF \/ Cardinality(M) > 1
            \/ \E r \in M : OrderTaken(store, tbl, parent, pos, r)
         THEN [status |-> "error", store |-> store]
         ELSE [status |-> "ok",
               store |-> [r \in RowIds |->
                            IF r \in M
                            THEN [store[r] EXCEPT !.display_order = pos]
                            ELSE store[r]]]

\* First free identifier (uuid_generate_v4 never repeats one).
FreshId(store) == CHOOSE r \in RowIds : ~Exists(store, r) /\ \A q \in 1 .. r - 1 : Exists(store, q)

\* The foreign key of a new row: users(id) for sections, service_sections(id)
\* for services and packages.
ParentExists(store, tbl, parent) ==
    IF tbl = "service_sections"
    THEN parent \in Users
    ELSE Exists(store, parent) /\ store[parent].tbl = "service_sections"

\* Variant: the tables without their UNIQUE constraint on the name.
NameTaken_Never(store, tbl, parent, name) == FALSE

\* UNIQUE(user_id, name), UNIQUE(section_id, name): over all rows of the parent.
NameTaken(store, tbl, parent, name) ==
    \E r \in RowIds : InScope(store, r, tbl, parent) /\ store[r].name = name

\* The name of a row another client creates: one no row has (a create with a
\* name in use is rejected and changes nothing).
OtherName(store) == FreshId(store)

\* INSERT INTO <tbl> (..., name, display_order) VALUES (...): is_active
\* defaults true.
InsertRow(store, tbl, parent, pos, name) ==
    IF \/ ~ParentExists(store, tbl, parent)
       \/ OrderTaken(store, tbl, parent, pos, 0)
       \/ NameTaken(store, tbl, parent, name)
    THEN [status |-> "error", store |-> store]
    ELSE [status |-> "ok",
          store |-> [store EXCEPT ![FreshId(store)] =
                        [tbl |-> tbl, parent |-> parent,
                         display_order |-> pos, is_active |-> TRUE,
                         name |-> name]]]

\* A write of another request ends the "run alone" of every call in flight or
\* finished and not yet answered.
Disturb(except) ==
    [c \in Callers |-> IF c = except \/ call[c].pc = "idle" THEN alone[c] ELSE FALSE]

\* The store remembered for a repeated input is dropped with the run alone.
Forget(except) ==
    [c \in Callers |-> IF c = except \/ call[c].pc = "idle" THEN after1[c] ELSE <<>>]

NoneInactive == [r \in RowIds |-> 0]

\* Position of every row of ids that is inactive, 0 for the other rows.
InactiveOrders(store, ids) ==
    [r \in RowIds |->
        IF r \in ids /\ Exists(store, r) /\ ~store[r].is_active
        THEN store[r].display_order ELSE 0]

\* No call in progress, API_BASE_URL = null and NetworkUtils.cachedIP = null.
IdleApi ==
    [pc |-> "idle", tbl |-> "none", parent |-> 0, order |-> 0, name |-> 0,
     serviceIds |-> <<>>, sent |-> 0, probes |-> 0, first |-> "none", stored |-> 0,
     status |-> 0, url |-> FALSE, ip |-> FALSE]

IdleCall ==
    [pc |-> "idle", tbl |-> "none", parent |-> 0, list |-> <<>>, i |-> 0, rep |-> 0,
     body |-> "none", asked |-> <<>>, path |-> 0]

\* What a creation dialog sent last: nothing yet.
NoSend ==
    [tbl |-> "none", parent |-> 0, order |-> 0, shown |-> {}, held |-> FALSE,
     status |-> 0]

\* useState<ServiceSection[]>([]): the screen starts blank, the menu is read
\* when the user refreshes.
BlankUi == [loaded |-> FALSE, sections |-> <<>>, sent |-> NoSend]

\* The clients the pool hands out.
Conns == 1 .. PoolSize

\* The addresses an owner can sign up with.
Emails == {"a@x", "b@x"}

\* A pooled client outside any transaction.
NoConn ==
    [txn |-> FALSE, aborted |-> FALSE, rows |-> [r \in RowIds |-> NoRow], mem |-> {}]

\* No createPackage call in progress.
NoCreate ==
    [pc |-> "idle", sectionId |-> 0, order |-> 0, serviceIds |-> <<>>, k |-> 0,
     packageId |-> 0]

\* No POST /api/users request in progress.
NoPost == [pc |-> "idle", email |-> "", id |-> 0, status |-> 0]

Init ==
    /\ rows = [r \in RowIds |-> NoRow]
    /\ call = [c \in Callers |-> IdleCall]
    /\ alone = [c \in Callers |-> TRUE]
    /\ after1 = [c \in Callers |-> <<>>]
    /\ inactive0 = [c \in Callers |-> NoneInactive]
    /\ members = {}
    /\ api = IdleApi
    /\ began = [c \in Callers |-> <<>>]
    /\ ui = BlankUi
    /\ conns = [c \in Conns |-> NoConn]
    /\ creating = [p \in Callers |-> NoCreate]
    /\ users = {}
    /\ posting = [p \in Callers |-> NoPost]


\* ------------------------------------------------------------ the inputs
\* The ids a request can name: the rows there are, of any table and parent
\* (generated identifiers cannot be guessed ahead of an insert), and 0, an id
\* that no row carries (a row that has vanished or never was).
KnownIds == {r \in RowIds : Exists(rows, r)} \cup {0}

\* The element the client builds for the row at (1-based) index k:
\* data.map((x, index) => ({id: x.id, order: index + 1})).
ClientList(ids) == [k \in DOMAIN ids |-> [id |-> ids[k], order |-> k]]

IdLists == UNION {[1 .. n -> KnownIds] : n \in 0 .. MaxLen}

NamesRowOf(tbl, parent, ids) ==
    \E k \in DOMAIN ids : MatchRows(rows, tbl, ids[k], parent) # {}

\* The serviceIds of a create-package request: any selection of the services
\* there are (of any section), the empty one included, each listed once.
ServiceIdLists ==
    {[k \in 1 .. Cardinality(S) |->
         CHOOSE r \in S : Cardinality({q \in S : q < r}) = k - 1] :
       S \in SUBSET {r \in RowIds : rows[r].tbl = "services"}}

\* The reorder requests explored for one parent: the empty list, and the lists
\* of at most MaxLen elements that name at least one row of the parent.
Requests(tbl, parent) ==
    {ClientList(ids) : ids \in {x \in IdLists : x = <<>> \/ NamesRowOf(tbl, parent, x)}}

\* The same lists with any order values in place of index + 1.
AnyOrderRequests(tbl, parent) ==
    {l \in UNION {[1 .. n -> [id : KnownIds, order : Orders]] : n \in 0 .. MaxLen} :
        l = <<>> \/ NamesRowOf(tbl, parent, [k \in DOMAIN l |-> l[k].id])}

\* The requests of a client that lists only rows it fetched for the parent.
OwnRequests(tbl, parent) ==
    {l \in Requests(tbl, parent) :
        \A k \in DOMAIN l : MatchRows(rows, tbl, l[k].id, parent) # {}}

\* ------------------------------------------------------------- creations
Create(tbl, parent, order) ==
    /\ \E r \in RowIds : ~Exists(rows, r)
    /\ LET res == InsertRow(rows, tbl, parent, order, OtherName(rows)) IN
        /\ res.status = "ok"
        /\ rows' = res.store
        /\ alone' = Disturb(0)
        /\ after1' = Forget(0)
    /\ UNCHANGED <<conns, creating, users, posting, ui, began, api, call, inactive0, members>>

CreateSection(userId, order) == Create("service_sections", userId, order)

CreateService(sectionId, order) == Create("services", sectionId, order)

\* INSERT INTO package_services (package_id, service_id) VALUES ($1, $2) for
\* each id of the list in turn: the primary key (package_id, service_id)
\* rejects an id listed twice, the foreign key an id that is no service.
LinkServices(store, mem, packageId, serviceIds) ==
    IF \/ \E j, k \in DOMAIN serviceIds : j # k /\ serviceIds[j] = serviceIds[k]
       \/ \E k \in DOMAIN serviceIds :
             ~(Exists(store, serviceIds[k]) /\ store[serviceIds[k]].tbl = "services")
    THEN [status |-> "error", mem |-> mem]
    ELSE [status |-> "ok",
          mem |-> mem \cup {<<packageId, serviceIds[k]>> : k \in DOMAIN serviceIds}]

\* BEGIN; the INSERT of the package; the INSERTs of its memberships; COMMIT, or
\* ROLLBACK when a statement fails.  The route lets any array of ids through
\* (Array.isArray(serviceIds)), the empty one included.
CreatePackage(sectionId, order, serviceIds) ==
    /\ \E r \in RowIds : ~Exists(rows, r)
    /\ LET res == InsertRow(rows, "service_packages", sectionId, order, OtherName(rows))
           lnk == LinkServices(res.store, members, FreshId(rows), serviceIds)
       IN  /\ res.status = "ok"
           /\ lnk.status = "ok"
           /\ rows' = res.store
           /\ members' = lnk.mem
           /\ alone' = Disturb(0)
           /\ after1' = Forget(0)
    /\ UNCHANGED <<conns, creating, users, posting, ui, began, api, call, inactive0>>

\* -------------------------------------------------------------- deletion
\* Soft delete: the row stays, its active flag is cleared, no sibling is
\* renumbered; the membership rows of a deleted service go, the packages stay.
Deactivate(id) ==
    /\ Exists(rows, id)
    /\ rows[id].is_active
    /\ Cardinality({r \in RowIds : Exists(rows, r) /\ ~rows[r].is_active}) < MaxDeletes
    /\ rows' = [rows EXCEPT ![id].is_active = FALSE]
    /\ members' = {m \in members : m[2] # id}
    /\ alone' = Disturb(0)
    /\ after1' = Forget(0)
    /\ UNCHANGED <<conns, creating, users, posting, ui, began, api, call, inactive0>>

\* ------------------------------------------------------------ renumbering
\* Variant: the call reading its first element before the loops, which throws
\* on an empty list ("const first = sections[0].id").
StartReorder_EmptyFails(c, tbl, parent, list) ==
    /\ call[c].pc = "idle"
    /\ call' = [call EXCEPT ![c] =
                  [pc |-> IF list = <<>> THEN "failed" ELSE "displace",
                   tbl |-> tbl, parent |-> parent, list |-> list,
                   i |-> 1, rep |-> 1, body |-> "array",
                   asked |-> list, path |-> parent]]
    /\ alone' = [alone EXCEPT ![c] = TRUE]
    /\ inactive0' = [inactive0 EXCEPT ![c] = InactiveOrders(rows, Range(list))]
    /\ UNCHANGED <<conns, creating, users, posting, ui, began, api, rows, after1, members>>

\* The call starts with the parent and the list it received as its first and
\* second argument: nothing is read or written before the first loop.  asked
\* and path are the list and the parent of the request the call serves, snap
\* is what is remembered of the store for the comparison with a run alone.
BeginCall(c, tbl, parent, list, snap, asked, path) ==
    /\ call[c].pc = "idle"
    /\ call' = [call EXCEPT ![c] =
                  [pc |-> IF list = <<>> THEN "done" ELSE "displace",
                   tbl |-> tbl, parent |-> parent, list |-> list,
                   i |-> 1, rep |-> 1, body |-> "array",
                   asked |-> asked, path |-> path]]
    /\ alone' = [alone EXCEPT ![c] = TRUE]
    /\ inactive0' = [inactive0 EXCEPT ![c] = InactiveOrders(rows, Range(list))]
    /\ began' = [began EXCEPT ![c] = snap]
    /\ UNCHANGED <<conns, creating, users, posting, ui, api, rows, after1, members>>

\* A call with the arguments its signature names.
Begin(c, tbl, parent, list, snap) == BeginCall(c, tbl, parent, list, snap, list, parent)

StartReorder(c, tbl, parent, list) == Begin(c, tbl, parent, list, <<>>)

UpdateSectionOrder(c, userId, sections) ==
    StartReorder(c, "service_sections", userId, sections)

UpdateServiceOrder(c, sectionId, services) ==
    StartReorder(c, "services", sectionId, services)

UpdatePackageOrder(c, sectionId, packages) ==
    StartReorder(c, "service_packages", sectionId, packages)

\* Position written by the first loop for the element at (1-based) index k.
TempOrder(k) == OFFSET + (k - 1)

\* Variant: the second loop writing the 0-based index i instead of i + 1.
FinalOrder_ZeroBased(k) == k - 1

\* Position written by the second loop for the element at (1-based) index k.
FinalOrder(k) == k

\* Variant: a loop that catches the error of an UPDATE and goes on with the
\* next element.
LoopStep_KeepGoing(c, pos, nextPc) ==
    LET cl == call[c]
        res == UpdateOrder(rows, cl.tbl, pos, cl.list[cl.i].id, cl.parent)
    IN  /\ rows' = res.store
        /\ alone' = IF res.status = "ok" THEN Disturb(c) ELSE alone
        /\ after1' = IF res.status = "ok" THEN Forget(c) ELSE after1
        /\ call' = [call EXCEPT ![c] =
              IF cl.i = Len(cl.list)
              THEN [cl EXCEPT !.pc = nextPc, !.i = 1]
              ELSE [cl EXCEPT !.i = cl.i + 1]]
        /\ UNCHANGED <<conns, creating, users, posting, ui, began, api, inactive0, members>>

\* One iteration of a loop: the awaited UPDATE of element i, then i++.  A
\* rejected UPDATE throws out of both loops ("Failed to update ... order").
LoopStep(c, pos, nextPc) ==
    LET cl == call[c]
        res == UpdateOrder(rows, cl.tbl, pos, cl.list[cl.i].id, cl.parent)
    IN  /\ rows' = res.store
        /\ alone' = IF res.status = "ok" THEN Disturb(c) ELSE alone
        /\ after1' = IF res.status = "ok" THEN Forget(c) ELSE after1
        /\ call' = [call EXCEPT ![c] =
              IF res.status = "error"
              THEN [cl EXCEPT !.pc = "failed"]
              ELSE IF cl.i = Len(cl.list)
                   THEN [cl EXCEPT !.pc = nextPc, !.i = 1]
                   ELSE [cl EXCEPT !.i = cl.i + 1]]
        /\ UNCHANGED <<conns, creating, users, posting, ui, began, api, inactive0, members>>

\* Variant: the first loop shifting each row by the offset,
\* "SET display_order = display_order + 1000".
Displace_Relative(c) ==
    /\ call[c].pc = "displace"
    /\ LET id == call[c].list[call[c].i].id
           cur == IF id \in RowIds THEN rows[id].display_order ELSE 0
       IN  LoopStep(c, cur + OFFSET, "settle")

Displace(c) ==
    /\ call[c].pc = "displace"
    /\ LoopStep(c, TempOrder(call[c].i), "settle")

\* Variant: the second loop writing the order value the element carries,
\* "[section.order, section.id, userId]".
Settle_SuppliedOrder(c) ==
    /\ call[c].pc = "settle"
    /\ LoopStep(c, call[c].list[call[c].i].order, "done")

Settle(c) ==
    /\ call[c].pc = "settle"
    /\ LoopStep(c, FinalOrder(call[c].i), "done")

Finished(c) == call[c].pc \in {"done", "failed"}

InFlight(c) == call[c].pc \in {"displace", "settle"}

\* The loop of a call that no other request interrupts, from element k on:
\* the UPDATEs one after another, ended by the first that raises an error.
RECURSIVE RunLoop(_, _, _, _, _, _)
RunLoop(store, tbl, parent, list, k, final) ==
    IF k > Len(list)
    THEN [status |-> "ok", store |-> store]
    ELSE LET res == UpdateOrder(store, tbl,
                                IF final THEN FinalOrder(k) ELSE TempOrder(k),
                                list[k].id, parent)
         IN  IF res.status = "error"
             THEN [status |-> "error", store |-> store]
             ELSE RunLoop(res.store, tbl, parent, list, k + 1, final)

\* update*Order run alone on the store: the first loop, then the second.
RunAlone(store, tbl, parent, list) ==
    LET first == RunLoop(store, tbl, parent, list, 1, FALSE) IN
    IF first.status = "error"
    THEN first
    ELSE RunLoop(first.store, tbl, parent, list, 1, TRUE)

\* The same request sent again right after its answer.
ReorderAgain(c) ==
    /\ Finished(c)
    /\ call[c].rep = 1
    /\ alone[c]
    /\ call[c].list # <<>>
    /\ call' = [call EXCEPT ![c].pc = "displace", ![c].i = 1, ![c].rep = 2]
    /\ after1' = [after1 EXCEPT ![c] = rows]
    /\ UNCHANGED <<conns, creating, users, posting, ui, began, api, rows, alone, inactive0, members>>

\* The request has been answered, or given up without an answer.
Answered(c) == Finished(c) \/ call[c].pc \in {"rejected", "dropped"}

\* The answer is sent; the handler is free for the next request.
Return(c) ==
    /\ Answered(c)
    /\ call' = [call EXCEPT ![c] = IdleCall]
    /\ alone' = [alone EXCEPT ![c] = TRUE]
    /\ after1' = [after1 EXCEPT ![c] = <<>>]
    /\ inactive0' = [inactive0 EXCEPT ![c] = NoneInactive]
    /\ began' = [began EXCEPT ![c] = <<>>]
    /\ UNCHANGED <<conns, creating, users, posting, ui, api, rows, members>>

\* ---------------------------------------------------------------- routes
\* What the list field of a request body can be: an array, absent, or a value
\* that is not an array and has no elements to iterate (a number, {}).
BodyKinds == {"array", "missing", "notArray"}

\* The server stops between two awaited statements of a call: the writes
\* applied so far stay (each statement commits on its own), the rest is never
\* issued, and the next request finds a free handler.
Crash(c) ==
    /\ InFlight(c)
    /\ call' = [call EXCEPT ![c] = IdleCall]
    /\ alone' = [alone EXCEPT ![c] = TRUE]
    /\ after1' = [after1 EXCEPT ![c] = <<>>]
    /\ inactive0' = [inactive0 EXCEPT ![c] = NoneInactive]
    /\ began' = [began EXCEPT ![c] = <<>>]
    /\ UNCHANGED <<conns, creating, users, posting, ui, api, rows, members>>

\* A request that is answered without a call of the ordering engine that
\* writes: the handler goes straight to its outcome.
Answer(c, tbl, parent, kind, outcome) ==
    /\ call[c].pc = "idle"
    /\ call' = [call EXCEPT ![c] =
                  [pc |-> outcome, tbl |-> tbl, parent |-> parent, list |-> <<>>,
                   i |-> 0, rep |-> 0, body |-> kind,
                   asked |-> <<>>, path |-> parent]]
    /\ alone' = [alone EXCEPT ![c] = TRUE]
    /\ UNCHANGED <<conns, creating, users, posting, ui, began, api, rows, after1, inactive0, members>>

\* PUT /api/menu/:userId/sections/order
\* if (!Array.isArray(sections)) return res.status(400)
PutSectionsOrder(c, userId, kind, sections) ==
    IF kind # "array"
    THEN Answer(c, "service_sections", userId, kind, "rejected")
    ELSE UpdateSectionOrder(c, userId, sections)

\* The characters of an id, as the elements the loops see when the id stands
\* where the list is expected: none of them has an id, so "if (service &&
\* service.id)" skips every one (an id has more characters than MaxLen; they
\* are all skipped alike).
Characters(id) == [k \in 1 .. MaxLen |-> [id |-> 0, order |-> 0]]

\* DatabaseService.updateServiceOrder(userId, sectionId, services) and
\* updatePackageOrder(userId, sectionId, packages) as the routes call them:
\* the functions take (sectionId, list), so the owner's id arrives as the
\* section and the section's id as the list; the third argument is dropped.
CallWithUserId(c, tbl, userId, sectionId, list) ==
    BeginCall(c, tbl, userId, Characters(sectionId), <<>>, list, sectionId)

\* PUT /api/menu/:userId/sections/:sectionId/services/order
\* No check of the field.  services.length is read before the try block: with
\* the field absent the handler throws outside any catch, and the request is
\* left without an answer or answered 500 by the error middleware, as the
\* framework handles the rejected handler; a value that is no array is passed
\* on like an array, and the answer is the success.
PutServicesOrder(c, userId, sectionId, kind, services) ==
    CASE kind = "missing" ->
            \/ Answer(c, "services", sectionId, kind, "dropped")
            \/ Answer(c, "services", sectionId, kind, "failed")
      [] kind = "notArray" -> Answer(c, "services", sectionId, kind, "done")
      [] OTHER -> CallWithUserId(c, "services", userId, sectionId, services)

\* PUT /api/menu/:userId/sections/:sectionId/packages/order
\* if (!Array.isArray(packages)) return res.status(400)
PutPackagesOrder(c, userId, sectionId, kind, packages) ==
    IF kind # "array"
    THEN Answer(c, "service_packages", sectionId, kind, "rejected")
    ELSE CallWithUserId(c, "service_packages", userId, sectionId, packages)

\* The HTTP status of the answer; 0 while there is none.
Status(c) ==
    CASE call[c].pc = "done" -> 200
      [] call[c].pc = "rejected" -> 400
      [] call[c].pc = "failed" -> 500
      [] OTHER -> 0

\* ----------------------------------------------------------------- reads
ActiveIn(store, tbl, parent) ==
    {r \in RowIds : InScope(store, r, tbl, parent) /\ store[r].is_active}

\* Variant: the query numbering its result rows instead of returning the stored
\* positions, "ROW_NUMBER() OVER (ORDER BY display_order) as order".
ListActive_Renumbered(store, tbl, parent) ==
    LET S == ActiveIn(store, tbl, parent) IN
    {s \in [1 .. Cardinality(S) -> [id : S, order : 1 .. Cardinality(S)]] :
        /\ \A k \in DOMAIN s : s[k].order = k
        /\ \A j, k \in DOMAIN s :
              j < k => /\ s[j].id # s[k].id
                       /\ store[s[j].id].display_order <= store[s[k].id].display_order}

\* SELECT id, display_order as "order" ... WHERE <parent> = $1 AND is_active
\* = true ORDER BY display_order: every ascending arrangement of the rows.
ListActive(store, tbl, parent) ==
    LET S == ActiveIn(store, tbl, parent) IN
    {s \in [1 .. Cardinality(S) -> [id : S, order : {store[r].display_order : r \in S}]] :
        /\ \A k \in DOMAIN s : s[k].order = store[s[k].id].display_order
        /\ \A j, k \in DOMAIN s : j < k => s[j].id # s[k].id /\ s[j].order <= s[k].order}

\* Variant: the query without its ORDER BY clause, the rows coming back in the
\* order they were inserted.
OrderBy_Unordered(store, S) ==
    [k \in 1 .. Cardinality(S) |->
         CHOOSE r \in S : Cardinality({q \in S : q < r}) = k - 1]

\* ORDER BY display_order: the rows of S, the one with the least position
\* first.
RECURSIVE OrderBy(_, _)
OrderBy(store, S) ==
    IF S = {}
    THEN <<>>
    ELSE LET m == CHOOSE r \in S :
                      \A q \in S : store[r].display_order <= store[q].display_order
         IN  <<m>> \o OrderBy(store, S \ {m})

\* SELECT ... FROM <tbl> WHERE <parent> = $1 AND is_active = true
\* ORDER BY display_order: the ids of the result rows.
SelectActive(store, tbl, parent) ==
    OrderBy(store, ActiveIn(store, tbl, parent))

\* SELECT service_id FROM package_services WHERE package_id = $1
PackageServices(mem, packageId) ==
    {m[2] : m \in {x \in mem : x[1] = packageId}}

\* getMenuData(userId): the sections of the owner, each with its services and
\* its packages, each package with the ids of its services.
GetMenuData(store, mem, userId) ==
    LET Item(r) == [id |-> r, order |-> store[r].display_order]
        sectionRows == SelectActive(store, "service_sections", userId)
    IN  [k \in DOMAIN sectionRows |->
            LET serviceRows == SelectActive(store, "services", sectionRows[k])
                packageRows == SelectActive(store, "service_packages", sectionRows[k])
            IN  [id |-> sectionRows[k],
                 order |-> store[sectionRows[k]].display_order,
                 services |-> [j \in DOMAIN serviceRows |-> Item(serviceRows[j])],
                 packages |->
                    [j \in DOMAIN packageRows |->
                        [id |-> packageRows[j],
                         order |-> store[packageRows[j]].display_order,
                         services |-> PackageServices(mem, packageRows[j])]]]]

\* ------------------------------------------------------------ the client
\* The addresses getLocalNetworkIP tries after localhost.
CommonIPs == 6

\* The health requests of one address discovery: one when localhost answers,
\* 1 + k when the k-th common address answers, and with no answer at all the
\* localhost test, the common addresses and the localhost fallback.
ProbeCounts == 1 .. (CommonIPs + 2)

\* await getAPIBaseURL(): the cached API_BASE_URL when there is one, else the
\* address NetworkUtils cached less than CACHE_DURATION ago, else a discovery.
GetAPIBaseURL(from, to) ==
    /\ api.pc = from
    /\ IF api.url
       THEN api' = [api EXCEPT !.pc = to]
       ELSE IF api.ip
            THEN api' = [api EXCEPT !.pc = to, !.url = TRUE]
            ELSE \E n \in ProbeCounts :
                    api' = [api EXCEPT !.pc = to, !.url = TRUE, !.ip = TRUE,
                                       !.probes = @ + n]
    /\ UNCHANGED <<conns, creating, users, posting, ui, began, rows, call, alone, after1, inactive0, members>>

\* The cached address of NetworkUtils is older than CACHE_DURATION.
Expire ==
    /\ api.ip
    /\ api' = [api EXCEPT !.ip = FALSE]
    /\ UNCHANGED <<conns, creating, users, posting, ui, began, rows, call, alone, after1, inactive0, members>>

\* resetAPICache() called by the user set-up screen.
ResetAPICache ==
    /\ api.url
    /\ api' = [api EXCEPT !.url = FALSE]
    /\ UNCHANGED <<conns, creating, users, posting, ui, began, rows, call, alone, after1, inactive0, members>>

\* The names the client gives the entities it creates.
ClientNames == {MaxRows + 1, MaxRows + 2}

\* createSection, createService, createPackage: apiCall of the POST of the
\* entity with the body the dialog built; the retry sends the same body.
ApiCall(tbl, parent, order, name, serviceIds) ==
    /\ api.pc = "idle"
    /\ api' = [api EXCEPT !.pc = "try", !.tbl = tbl, !.parent = parent,
                          !.order = order, !.name = name,
                          !.serviceIds = serviceIds,
                          !.sent = 0, !.probes = 0, !.first = "none", !.stored = 0,
                          !.status = 0]
    /\ UNCHANGED <<conns, creating, users, posting, ui, began, rows, call, alone, after1, inactive0, members>>

\* Variant: the catch block retrying after any error.
Retryable_AnyError(outcome) == outcome # "ok"

\* error instanceof TypeError && error.message.includes("Network request failed")
Retryable(outcome) == outcome = "network"

\* What fetch and the lines after it make of a request: a request the server
\* never received or whose answer was lost rejects with the network error, an
\* answer with an error status throws "HTTP error!", any other answer is parsed.
Outcome(delivered, answered, status) ==
    IF ~delivered \/ ~answered THEN "network"
    ELSE IF status = 201 THEN "ok" ELSE "http"

\* The create routes on the store: the INSERT of the row and, for a package,
\* of its memberships; [status, store, mem, id].
PostCreate(store, mem, tbl, parent, order, name, serviceIds) ==
    LET res == InsertRow(store, tbl, parent, order, name)
        lnk == IF tbl = "service_packages"
               THEN LinkServices(res.store, mem, FreshId(store), serviceIds)
               ELSE [status |-> "ok", mem |-> mem]
    IN  IF res.status = "ok" /\ lnk.status = "ok"
        THEN [status |-> 201, store |-> res.store, mem |-> lnk.mem,
              id |-> FreshId(store)]
        ELSE [status |-> 500, store |-> store, mem |-> mem, id |-> 0]

\* fetch(baseURL + endpoint) of the try block (from = "fetch") or of the catch
\* block (from = "refetch"): the request is sent; when it is delivered the
\* route inserts the entity and answers 201, or 500 when an insert fails.
Fetch(from, delivered, answered) ==
    /\ api.pc = from
    /\ delivered => \/ \E r \in RowIds : ~Exists(rows, r)
                    \/ OrderTaken(rows, api.tbl, api.parent, api.order, 0)
                    \/ NameTaken(rows, api.tbl, api.parent, api.name)
    /\ LET res == PostCreate(rows, members, api.tbl, api.parent, api.order,
                             api.name, api.serviceIds)
           outcome == Outcome(delivered, answered, res.status)
       IN  /\ rows' = IF delivered THEN res.store ELSE rows
           /\ members' = IF delivered THEN res.mem ELSE members
           /\ alone' = IF rows' # rows THEN Disturb(0) ELSE alone
           /\ after1' = IF rows' # rows THEN Forget(0) ELSE after1
           /\ api' = [api EXCEPT
                        !.sent = @ + 1,
                        !.first = IF from = "fetch" THEN outcome ELSE @,
                        !.stored = IF from = "fetch" /\ delivered THEN res.id ELSE @,
                        !.status = IF delivered THEN res.status ELSE 0,
                        !.url = IF from = "fetch" /\ Retryable(outcome)
                                THEN FALSE ELSE @,
                        !.pc = IF from = "fetch" /\ Retryable(outcome) THEN "retry"
                               ELSE IF outcome = "ok" THEN "ok" ELSE "failed"]
    /\ UNCHANGED <<conns, creating, users, posting, ui, began, call, inactive0>>

\* apiCall returns {success, data} or {success: false, error}.
ApiReturn ==
    /\ api.pc \in {"ok", "failed"}
    /\ api' = [IdleApi EXCEPT !.url = api.url, !.ip = api.ip]
    /\ UNCHANGED <<conns, creating, users, posting, ui, began, rows, call, alone, after1, inactive0, members>>

\* ------------------------------------------------------------ the screen
\* loadMenuData: setSections(menuData.sections) with the answer of GET /menu.
LoadMenuData(userId) ==
    /\ ui' = [loaded |-> TRUE, sections |-> GetMenuData(rows, members, userId),
              sent |-> NoSend]
    /\ UNCHANGED <<conns, creating, users, posting, rows, call, alone, after1, inactive0, members, api, began>>

\* The order the section dialog computes from the sections of the screen: the
\* first i of 1 .. length + 1 that no section carries; when that leaves
\* newOrder at 1 with sections on the screen, the highest order plus one.
NewOrder(existingSections) ==
    LET existingOrders == {existingSections[k].order : k \in DOMAIN existingSections}
        gap == CHOOSE i \in 1 .. Len(existingSections) + 1 :
                  /\ i \notin existingOrders
                  /\ \A j \in 1 .. i - 1 : j \in existingOrders
        maxOrder == CHOOSE m \in existingOrders : \A o \in existingOrders : o <= m
    IN  IF existingSections = <<>> THEN 1
        ELSE IF gap = 1 THEN maxOrder + 1
        ELSE gap

\* What a dialog sent, with the orders of the screen and whether a stored row
\* of the parent held the position when the request arrived.
Sent(tbl, parent, order, shown, status) ==
    [tbl |-> tbl, parent |-> parent, order |-> order, shown |-> shown,
     held |-> OrderTaken(rows, tbl, parent, order, 0), status |-> status]

\* SectionCreationModal.handleCreate: POST /sections with the computed order;
\* on success the new section joins the screen as the last one, its order the
\* count of the sections plus one.  The name typed is one no section has.
HandleCreateSection(userId) ==
    /\ \E r \in RowIds : ~Exists(rows, r)
    /\ LET newOrder == NewOrder(ui.sections)
           res == PostCreate(rows, members, "service_sections", userId, newOrder,
                             OtherName(rows), <<>>)
           newSection == [id |-> res.id, order |-> Len(ui.sections) + 1,
                          services |-> <<>>, packages |-> <<>>]
       IN  /\ rows' = res.store
           /\ ui' = [ui EXCEPT
                       !.sections = IF res.status = 201
                                    THEN Append(@, newSection) ELSE @,
                       !.sent = Sent("service_sections", userId, newOrder,
                                     {ui.sections[k].order : k \in DOMAIN ui.sections},
                                     res.status)]
           /\ alone' = IF rows' # rows THEN Disturb(0) ELSE alone
           /\ after1' = IF rows' # rows THEN Forget(0) ELSE after1
    /\ UNCHANGED <<conns, creating, users, posting, call, inactive0, members, api, began>>

\* The arrangements a drag can leave a list in.
Arrangements(list) ==
    {[k \in DOMAIN list |-> list[p[k]]] :
        p \in {q \in [DOMAIN list -> DOMAIN list] :
                 \A i, j \in DOMAIN list : i # j => q[i] # q[j]}}

Ids(list) == [k \in DOMAIN list |-> list[k].id]

\* handleSectionReorder: setSections(data), the order fields as they were, then
\* PUT /sections/order with (id, index + 1); a failure is only logged.
HandleSectionReorder(userId, data) ==
    /\ data \in Arrangements(ui.sections)
    /\ data # ui.sections
    /\ ui' = [ui EXCEPT !.sections = data]
    /\ rows' = RunAlone(rows, "service_sections", userId, ClientList(Ids(data))).store
    /\ alone' = IF rows' # rows THEN Disturb(0) ELSE alone
    /\ after1' = IF rows' # rows THEN Forget(0) ELSE after1
    /\ UNCHANGED <<conns, creating, users, posting, call, inactive0, members, api, began>>

\* The list f without the element for id.
Without(f, id) == SelectSeq(f, LAMBDA e : e.id # id)

\* handleDeleteSection: DELETE /sections/:id, then handleSectionDeleted drops
\* the section from the screen.  The stored row is deactivated.
HandleDeleteSection(userId, sectionId) ==
    /\ \E k \in DOMAIN ui.sections : ui.sections[k].id = sectionId
    /\ Exists(rows, sectionId)
    /\ rows[sectionId].is_active
    /\ Cardinality({r \in RowIds : Exists(rows, r) /\ ~rows[r].is_active}) < MaxDeletes
    /\ rows' = [rows EXCEPT ![sectionId].is_active = FALSE]
    /\ ui' = [ui EXCEPT !.sections = Without(@, sectionId)]
    /\ alone' = Disturb(0)
    /\ after1' = Forget(0)
    /\ UNCHANGED <<conns, creating, users, posting, call, inactive0, members, api, began>>

\* The screen with the services of one section replaced.
WithServices(sections, sectionId, services) ==
    [k \in DOMAIN sections |->
        IF sections[k].id = sectionId
        THEN [sections[k] EXCEPT !.services = services]
        ELSE sections[k]]

\* PUT /sections/:sectionId/services/order as the route serves it: the call
\* gets the owner's id as its section and the section's id as its list.
ServiceOrderSaved(store, userId, sectionId, orderData) ==
    RunAlone(store, "services", userId, Characters(sectionId)).store

\* ServiceCreationModal.handleCreate: POST /services with order = the count of
\* the services shown + 1; on success handleServiceCreated appends the service
\* (no order field is set, 0 here) and saves the order of the list.
HandleCreateService(userId, k) ==
    /\ k \in DOMAIN ui.sections
    /\ \E r \in RowIds : ~Exists(rows, r)
    /\ LET section == ui.sections[k]
           order == Len(section.services) + 1
           res == PostCreate(rows, members, "services", section.id, order,
                             OtherName(rows), <<>>)
           updatedServices == Append(section.services, [id |-> res.id, order |-> 0])
       IN  /\ rows' = IF res.status = 201
                      THEN ServiceOrderSaved(res.store, userId, section.id,
                                             ClientList(Ids(updatedServices)))
                      ELSE rows
           /\ ui' = [ui EXCEPT
                       !.sections = IF res.status = 201
                                    THEN WithServices(@, section.id, updatedServices)
                                    ELSE @,
                       !.sent = Sent("services", section.id, order,
                                     {section.services[j].order :
                                         j \in DOMAIN section.services},
                                     res.status)]
           /\ alone' = IF rows' # rows THEN Disturb(0) ELSE alone
           /\ after1' = IF rows' # rows THEN Forget(0) ELSE after1
    /\ UNCHANGED <<conns, creating, users, posting, call, inactive0, members, api, began>>

\* handleServiceReorder: the services of the section as dragged, then the PUT.
HandleServiceReorder(userId, k, newServices) ==
    /\ k \in DOMAIN ui.sections
    /\ newServices \in Arrangements(ui.sections[k].services)
    /\ newServices # ui.sections[k].services
    /\ ui' = [ui EXCEPT !.sections = WithServices(@, ui.sections[k].id, newServices)]
    /\ rows' = ServiceOrderSaved(rows, userId, ui.sections[k].id,
                                 ClientList(Ids(newServices)))
    /\ alone' = IF rows' # rows THEN Disturb(0) ELSE alone
    /\ after1' = IF rows' # rows THEN Forget(0) ELSE after1
    /\ UNCHANGED <<conns, creating, users, posting, call, inactive0, members, api, began>>

\* handleDeleteService: DELETE /services/:id, then handleServiceDeleted drops
\* the service from the section on the screen.  The stored row is deactivated
\* and its membership rows go.
HandleDeleteService(userId, k, serviceId) ==
    /\ k \in DOMAIN ui.sections
    /\ \E j \in DOMAIN ui.sections[k].services :
          ui.sections[k].services[j].id = serviceId
    /\ Exists(rows, serviceId)
    /\ rows[serviceId].is_active
    /\ Cardinality({r \in RowIds : Exists(rows, r) /\ ~rows[r].is_active}) < MaxDeletes
    /\ rows' = [rows EXCEPT ![serviceId].is_active = FALSE]
    /\ members' = {m \in members : m[2] # serviceId}
    /\ ui' = [ui EXCEPT
                !.sections = WithServices(@, ui.sections[k].id,
                                          Without(ui.sections[k].services, serviceId))]
    /\ alone' = Disturb(0)
    /\ after1' = Forget(0)
    /\ UNCHANGED <<conns, creating, users, posting, call, inactive0, api, began>>

\* -------------------------------------------------------------- the pool
\* query(text, params) = pool.query(text, params): each statement runs on
\* whichever client of the pool is idle, c here, and the client goes back to
\* the pool after it.  A statement on a client with an open transaction joins
\* it; on a client without one it is committed as it ends.

\* The rows a statement on client c sees: the committed ones and the ones its
\* own open transaction has written.
SeenRows(c) ==
    [r \in RowIds |-> IF conns[c].rows[r].tbl # "none" THEN conns[c].rows[r] ELSE rows[r]]

SeenMembers(c) == members \cup conns[c].mem

\* Every row there is, committed or not: a generated id repeats none of them.
AllRows ==
    [r \in RowIds |->
        IF \E c \in Conns : conns[c].rows[r].tbl # "none"
        THEN (CHOOSE x \in {conns[c].rows[r] : c \in Conns} : x.tbl # "none")
        ELSE rows[r]]

\* An INSERT waits for the end of another client's transaction that wrote a
\* row with the same key.
Waits(c, tbl, parent, pos, name) ==
    \E d \in Conns \ {c} :
        \/ OrderTaken(conns[d].rows, tbl, parent, pos, 0)
        \/ NameTaken(conns[d].rows, tbl, parent, name)

\* A statement other than ROLLBACK or COMMIT on a client whose transaction has
\* failed is refused ("current transaction is aborted").
Refused(c) == conns[c].txn /\ conns[c].aborted

\* The client after a statement of its transaction raised an error.
Failing(c) == [conns EXCEPT ![c].aborted = conns[c].txn]

\* createSection / createService of another request: its one INSERT on the
\* client the pool hands it; a rejected INSERT leaves the store as it was.
QueryInsert(c, tbl, parent, order) ==
    /\ \E r \in RowIds : ~Exists(AllRows, r)
    /\ LET name == OtherName(AllRows)
           id == FreshId(AllRows)
           res == InsertRow(SeenRows(c), tbl, parent, order, name)
           row == [tbl |-> tbl, parent |-> parent, display_order |-> order,
                   is_active |-> TRUE, name |-> name]
       IN  /\ ~Waits(c, tbl, parent, order, name)
           /\ IF Refused(c) \/ res.status = "error"
              THEN /\ conns' = Failing(c)
                   /\ rows' = rows
              ELSE /\ conns' = IF conns[c].txn
                               THEN [conns EXCEPT ![c].rows[id] = row] ELSE conns
                   /\ rows' = IF conns[c].txn THEN rows ELSE [rows EXCEPT ![id] = row]
    /\ alone' = IF rows' # rows THEN Disturb(0) ELSE alone
    /\ after1' = IF rows' # rows THEN Forget(0) ELSE after1
    /\ UNCHANGED <<call, inactive0, members, api, began, ui, creating, users, posting>>

\* POST /api/sections/:sectionId/packages with an array serviceIds:
\* createPackage(sectionId, packageData, serviceIds) starts.
StartCreatePackage(p, sectionId, order, serviceIds) ==
    /\ creating[p].pc = "idle"
    /\ creating' = [creating EXCEPT ![p] =
                      [pc |-> "begin", sectionId |-> sectionId, order |-> order,
                       serviceIds |-> serviceIds, k |-> 1, packageId |-> 0]]
    /\ UNCHANGED <<rows, call, alone, after1, inactive0, members, api, began, ui,
                   conns, users, posting>>

\* await query("BEGIN"), outside the inner try: when it is refused the call
\* throws without a ROLLBACK.  BEGIN on a client that has a transaction open
\* changes nothing.
QueryBegin(p, c) ==
    /\ creating[p].pc = "begin"
    /\ conns' = IF Refused(c) THEN conns ELSE [conns EXCEPT ![c].txn = TRUE]
    /\ creating' = [creating EXCEPT ![p].pc = IF Refused(c) THEN "failed" ELSE "insert"]
    /\ UNCHANGED <<rows, call, alone, after1, inactive0, members, api, began, ui,
                   users, posting>>

\* INSERT INTO service_packages (...) VALUES (...) RETURNING id
QueryInsertPackage(p, c) ==
    /\ creating[p].pc = "insert"
    /\ \E r \in RowIds : ~Exists(AllRows, r)
    /\ LET name == OtherName(AllRows)
           packageId == FreshId(AllRows)
           res == InsertRow(SeenRows(c), "service_packages", creating[p].sectionId,
                            creating[p].order, name)
           row == [tbl |-> "service_packages", parent |-> creating[p].sectionId,
                   display_order |-> creating[p].order, is_active |-> TRUE,
                   name |-> name]
       IN  /\ ~Waits(c, "service_packages", creating[p].sectionId,
                     creating[p].order, name)
           /\ IF Refused(c) \/ res.status = "error"
              THEN /\ conns' = Failing(c)
                   /\ rows' = rows
                   /\ creating' = [creating EXCEPT ![p].pc = "rollback"]
              ELSE /\ conns' = IF conns[c].txn
                               THEN [conns EXCEPT ![c].rows[packageId] = row]
                               ELSE conns
                   /\ rows' = IF conns[c].txn THEN rows
                              ELSE [rows EXCEPT ![packageId] = row]
                   /\ creating' = [creating EXCEPT
                                     ![p].packageId = packageId,
                                     ![p].pc = IF creating[p].serviceIds = <<>>
                                               THEN "commit" ELSE "link"]
    /\ alone' = IF rows' # rows THEN Disturb(0) ELSE alone
    /\ after1' = IF rows' # rows THEN Forget(0) ELSE after1
    /\ UNCHANGED <<call, inactive0, members, api, began, ui, users, posting>>

\* INSERT INTO package_services (package_id, service_id) VALUES ($1, $2) for
\* the k-th id of the list: both foreign keys and the primary key are checked
\* against the rows the client sees.
QueryLinkService(p, c) ==
    /\ creating[p].pc = "link"
    /\ LET packageId == creating[p].packageId
           serviceId == creating[p].serviceIds[creating[p].k]
           seen == SeenRows(c)
           lnk == LinkServices(seen, SeenMembers(c), packageId, <<serviceId>>)
           ok == /\ ~Refused(c)
                 /\ Exists(seen, packageId)
                 /\ <<packageId, serviceId>> \notin SeenMembers(c)
                 /\ lnk.status = "ok"
           last == creating[p].k = Len(creating[p].serviceIds)
       IN  IF ~ok
           THEN /\ conns' = Failing(c)
                /\ members' = members
                /\ creating' = [creating EXCEPT ![p].pc = "rollback"]
           ELSE /\ conns' = IF conns[c].txn
                            THEN [conns EXCEPT
                                    ![c].mem = @ \cup {<<packageId, serviceId>>}]
                            ELSE conns
                /\ members' = IF conns[c].txn THEN members
                              ELSE members \cup {<<packageId, serviceId>>}
                /\ creating' = [creating EXCEPT
                                  ![p].k = IF last THEN @ ELSE @ + 1,
                                  ![p].pc = IF last THEN "commit" ELSE "link"]
    /\ UNCHANGED <<rows, call, alone, after1, inactive0, api, began, ui, users,
                   posting>>

\* The committed rows with what the transaction of client c has written.
Committed(c) == IF conns[c].txn /\ ~conns[c].aborted THEN SeenRows(c) ELSE rows

\* await query("COMMIT"); return packageId.  The writes of the client's
\* transaction become visible; a failed transaction is rolled back instead,
\* and on a client without a transaction COMMIT changes nothing.
QueryCommit(p, c) ==
    /\ creating[p].pc = "commit"
    /\ rows' = Committed(c)
    /\ members' = IF conns[c].txn /\ ~conns[c].aborted THEN SeenMembers(c) ELSE members
    /\ conns' = [conns EXCEPT ![c] = NoConn]
    /\ creating' = [creating EXCEPT ![p].pc = "done"]
    /\ alone' = IF rows' # rows THEN Disturb(0) ELSE alone
    /\ after1' = IF rows' # rows THEN Forget(0) ELSE after1
    /\ UNCHANGED <<call, inactive0, api, began, ui, users, posting>>

\* catch (error) { await query("ROLLBACK"); throw error; }: the writes of the
\* client's transaction are dropped.
QueryRollback(p, c) ==
    /\ creating[p].pc = "rollback"
    /\ conns' = [conns EXCEPT ![c] = NoConn]
    /\ creating' = [creating EXCEPT ![p].pc = "failed"]
    /\ UNCHANGED <<rows, call, alone, after1, inactive0, members, api, began, ui,
                   users, posting>>

\* The route answers 201 with the id, or 500.
AnswerCreatePackage(p) ==
    /\ creating[p].pc \in {"done", "failed"}
    /\ creating' = [creating EXCEPT ![p] = NoCreate]
    /\ UNCHANGED <<rows, call, alone, after1, inactive0, members, api, began, ui,
                   conns, users, posting>>

\* ----------------------------------------------------------------- owners
\* POST /api/users {email, businessName}, both fields given.
PostUsers(p, email) ==
    /\ posting[p].pc = "idle"
    /\ posting' = [posting EXCEPT ![p] = [NoPost EXCEPT !.pc = "select", !.email = email]]
    /\ UNCHANGED <<rows, call, alone, after1, inactive0, members, api, began, ui,
                   conns, creating, users>>

\* let user = await DatabaseService.getUserByEmail(email): the row of the
\* address when there is one; the route answers with it.
GetUserByEmail(p) ==
    /\ posting[p].pc = "select"
    /\ LET found == {u \in users : u.email = posting[p].email} IN
         posting' = [posting EXCEPT
                       ![p].pc = IF found = {} THEN "insert" ELSE "answered",
                       ![p].id = IF found = {} THEN 0 ELSE (CHOOSE u \in found : TRUE).id,
                       ![p].status = IF found = {} THEN 0 ELSE 200]
    /\ UNCHANGED <<rows, call, alone, after1, inactive0, members, api, began, ui,
                   conns, creating, users>>

\* if (!user) userId = await DatabaseService.createUser(email, businessName):
\* INSERT INTO users (email, business_name); email is UNIQUE, and a rejected
\* INSERT makes the route answer 500.
CreateUser(p) ==
    /\ posting[p].pc = "insert"
    /\ LET taken == \E u \in users : u.email = posting[p].email
           userId == Cardinality(users) + 1
       IN  /\ users' = IF taken THEN users
                       ELSE users \cup {[id |-> userId, email |-> posting[p].email]}
           /\ posting' = [posting EXCEPT
                            ![p].pc = "answered",
                            ![p].id = IF taken THEN 0 ELSE userId,
                            ![p].status = IF taken THEN 500 ELSE 200]
    /\ UNCHANGED <<rows, call, alone, after1, inactive0, members, api, began, ui,
                   conns, creating>>

\* res.json(user) or the 500 has gone out.
ReturnUser(p) ==
    /\ posting[p].pc = "answered"
    /\ posting' = [posting EXCEPT ![p] = NoPost]
    /\ UNCHANGED <<rows, call, alone, after1, inactive0, members, api, began, ui,
                   conns, creating, users>>

\* ------------------------------------------------------- specifications
Writes ==
    \/ \E u \in Users, o \in CreateOrders : CreateSection(u, o)
    \/ \E s \in RowIds, o \in CreateOrders : CreateService(s, o)
    \/ \E s \in RowIds :
          /\ ParentExists(rows, "service_packages", s)
          /\ \E o \in CreateOrders, ids \in ServiceIdLists : CreatePackage(s, o, ids)
    \/ \E r \in RowIds : Deactivate(r)

\* One request handler: reorder requests are served one after another, while
\* creations and deletions arrive at any time.
Next ==
    \/ Writes
    \/ /\ call[1].pc = "idle"
       /\ \/ \E u \in Users : \E l \in Requests("service_sections", u) :
                UpdateSectionOrder(1, u, l)
          \/ \E s \in RowIds : \E l \in Requests("services", s) :
                UpdateServiceOrder(1, s, l)
          \/ \E s \in RowIds : \E l \in Requests("service_packages", s) :
                UpdatePackageOrder(1, s, l)
    \/ Displace(1)
    \/ Settle(1)
    \/ ReorderAgain(1)
    \/ Return(1)

Spec == Init /\ [][Next]_vars

\* Two request handlers, one reorder request each: requests for the services
\* of a section are served concurrently, their UPDATE statements interleaving
\* in any order.
NextRace ==
    \/ \E u \in Users, o \in CreateOrders : CreateSection(u, o)
    \/ \E s \in RowIds, o \in CreateOrders : CreateService(s, o)
    \/ \E r \in RowIds : Deactivate(r)
    \/ \E c \in Callers :
          /\ call[c].pc = "idle"
          /\ \E s \in RowIds : \E l \in OwnRequests("services", s) :
                UpdateServiceOrder(c, s, l)
    \/ \E c \in Callers : Displace(c)
    \/ \E c \in Callers : Settle(c)

SpecRace == Init /\ [][NextRace]_vars

\* One request handler for the sections of the owners, the order values of a
\* request chosen freely by the caller.
NextOrders ==
    \/ \E u \in Users, o \in CreateOrders : CreateSection(u, o)
    \/ \E r \in RowIds : Deactivate(r)
    \/ /\ call[1].pc = "idle"
       /\ \E u \in Users : \E l \in AnyOrderRequests("service_sections", u) :
             UpdateSectionOrder(1, u, l)
    \/ Displace(1)
    \/ Settle(1)
    \/ Return(1)

SpecOrders == Init /\ [][NextOrders]_vars

\* One request handler behind the three reorder routes, the list field of a
\* request body of any kind; a well-formed request lists rows of the parent.
NextRoutes ==
    \/ Writes
    \/ /\ call[1].pc = "idle"
       /\ \/ \E u \in Users, k \in BodyKinds \ {"array"} :
                PutSectionsOrder(1, u, k, <<>>)
          \/ \E u \in Users, s \in RowIds, k \in BodyKinds \ {"array"} :
                PutServicesOrder(1, u, s, k, <<>>)
          \/ \E u \in Users, s \in RowIds, k \in BodyKinds \ {"array"} :
                PutPackagesOrder(1, u, s, k, <<>>)
          \/ \E u \in Users : \E l \in OwnRequests("service_sections", u) :
                PutSectionsOrder(1, u, "array", l)
          \/ \E u \in Users, s \in RowIds : \E l \in OwnRequests("services", s) :
                PutServicesOrder(1, u, s, "array", l)
          \/ \E u \in Users, s \in RowIds : \E l \in OwnRequests("service_packages", s) :
                PutPackagesOrder(1, u, s, "array", l)
    \/ Displace(1)
    \/ Settle(1)
    \/ Return(1)

SpecRoutes == Init /\ [][NextRoutes]_vars

\* One client creating sections through apiCall, its requests and their
\* answers lost at will; deletions arrive at any time.
NextClient ==
    \/ \E u \in Users, o \in 1 .. MaxLen, n \in ClientNames :
          ApiCall("service_sections", u, o, n, <<>>)
    \/ GetAPIBaseURL("try", "fetch")
    \/ \E delivered, answered \in BOOLEAN : Fetch("fetch", delivered, answered)
    \/ GetAPIBaseURL("retry", "refetch")
    \/ \E delivered, answered \in BOOLEAN : Fetch("refetch", delivered, answered)
    \/ ApiReturn
    \/ Expire
    \/ ResetAPICache
    \/ \E r \in RowIds : Deactivate(r)

SpecClient == Init /\ [][NextClient]_vars

\* A client that found the address less than CACHE_DURATION ago.
InitRetry ==
    /\ rows = [r \in RowIds |-> NoRow]
    /\ call = [c \in Callers |-> IdleCall]
    /\ alone = [c \in Callers |-> TRUE]
    /\ after1 = [c \in Callers |-> <<>>]
    /\ inactive0 = [c \in Callers |-> NoneInactive]
    /\ members = {}
    /\ api = [IdleApi EXCEPT !.url = TRUE, !.ip = TRUE]
    /\ began = [c \in Callers |-> <<>>]
    /\ ui = BlankUi
    /\ conns = [c \in Conns |-> NoConn]
    /\ creating = [p \in Callers |-> NoCreate]
    /\ users = {}
    /\ posting = [p \in Callers |-> NoPost]

\* The owner and the entity name of the client's create requests.
MenuOwner == CHOOSE u \in Users : \A v \in Users : u <= v
EntityName == CHOOSE n \in ClientNames : \A m \in ClientNames : n <= m

\* One client creating sections, services and packages of one owner through
\* apiCall, while other requests create and reorder the owner's sections.
NextRetry ==
    \/ \E o \in 1 .. MaxLen : ApiCall("service_sections", MenuOwner, o, EntityName, <<>>)
    \/ \E s \in RowIds, o \in 1 .. MaxLen :
          /\ ParentExists(rows, "services", s)
          /\ ApiCall("services", s, o, EntityName, <<>>)
    \/ \E s \in RowIds, o \in 1 .. MaxLen :
          /\ ParentExists(rows, "service_packages", s)
          /\ \E ids \in ServiceIdLists :
                ApiCall("service_packages", s, o, EntityName, ids)
    \/ GetAPIBaseURL("try", "fetch")
    \/ \E delivered, answered \in BOOLEAN : Fetch("fetch", delivered, answered)
    \/ GetAPIBaseURL("retry", "refetch")
    \/ \E delivered, answered \in BOOLEAN : Fetch("refetch", delivered, answered)
    \/ ApiReturn
    \/ \E o \in 1 .. MaxLen : CreateSection(MenuOwner, o)
    \/ /\ call[1].pc = "idle"
       /\ \E l \in OwnRequests("service_sections", MenuOwner) :
             UpdateSectionOrder(1, MenuOwner, l)
    \/ Displace(1)
    \/ Settle(1)
    \/ Return(1)

SpecRetry == InitRetry /\ [][NextRetry]_vars

\* The store is filled, then two request handlers serve one reorder request
\* each, for different parents or tables, their UPDATE statements interleaving
\* in any order.
NextScopes ==
    \/ /\ \A c \in Callers : call[c].pc = "idle"
       /\ \/ \E u \in Users, o \in 1 .. MaxLen : CreateSection(u, o)
          \/ \E s \in RowIds, o \in 1 .. MaxLen : CreateService(s, o)
          \/ \E s \in RowIds, o \in 1 .. MaxLen : CreatePackage(s, o, <<>>)
    \/ \E c \in Callers, tbl \in Tables, p \in Parents :
          /\ call[c].pc = "idle"
          /\ ParentExists(rows, tbl, p)
          /\ \A d \in Callers \ {c} :
                call[d].pc = "idle" \/ call[d].tbl # tbl \/ call[d].parent # p
          /\ \E l \in OwnRequests(tbl, p) : Begin(c, tbl, p, l, rows)
    \/ \E c \in Callers : Displace(c)
    \/ \E c \in Callers : Settle(c)

SpecScopes == Init /\ [][NextScopes]_vars

\* One request handler reordering the sections of one owner, its calls ending,
\* failing or cut short by a stop of the server; sections are created at the
\* positions 1..MaxLen only, so a row at 1000 or above was left by a call.
NextRecover ==
    \/ \E o \in 1 .. MaxLen : CreateSection(MenuOwner, o)
    \/ /\ call[1].pc = "idle"
       /\ \E l \in Requests("service_sections", MenuOwner) :
             Begin(1, "service_sections", MenuOwner, l, rows)
    \/ Displace(1)
    \/ Settle(1)
    \/ Return(1)
    \/ Crash(1)

SpecRecover == Init /\ [][NextRecover]_vars

\* One owner's screen: rows come into the store through the API, the menu is
\* loaded, and from then on the store changes through the screen only.
NextDialog ==
    \/ \E o \in 1 .. MaxLen : ~ui.loaded /\ CreateSection(MenuOwner, o)
    \/ \E s \in RowIds, o \in 1 .. MaxLen : ~ui.loaded /\ CreateService(s, o)
    \/ LoadMenuData(MenuOwner)
    \/ HandleCreateSection(MenuOwner)
    \/ \E data \in Arrangements(ui.sections) : HandleSectionReorder(MenuOwner, data)
    \/ \E s \in RowIds : HandleDeleteSection(MenuOwner, s)
    \/ \E k \in DOMAIN ui.sections : HandleCreateService(MenuOwner, k)
    \/ \E k \in DOMAIN ui.sections :
          \E l \in Arrangements(ui.sections[k].services) :
             HandleServiceReorder(MenuOwner, k, l)
    \/ \E k \in DOMAIN ui.sections, s \in RowIds : HandleDeleteService(MenuOwner, k, s)

SpecDialog == Init /\ [][NextDialog]_vars

\* The ids a create-package request can list: the rows there are and 0, an id
\* no row carries.
PackageServiceLists == UNION {[1 .. n -> KnownIds] : n \in 0 .. MaxLen}

\* One package creation at a time, while other requests create sections and
\* services through the same pool.
NextPool ==
    \/ \E c \in Conns, o \in 1 .. MaxLen :
          QueryInsert(c, "service_sections", MenuOwner, o)
    \/ \E c \in Conns, s \in RowIds, o \in 1 .. MaxLen :
          QueryInsert(c, "services", s, o)
    \/ \E p \in Callers, s \in RowIds, o \in 1 .. MaxLen :
          /\ \A q \in Callers : creating[q].pc = "idle"
          /\ ParentExists(rows, "service_packages", s)
          /\ \E ids \in PackageServiceLists : StartCreatePackage(p, s, o, ids)
    \/ \E p \in Callers, c \in Conns : QueryBegin(p, c)
    \/ \E p \in Callers, c \in Conns : QueryInsertPackage(p, c)
    \/ \E p \in Callers, c \in Conns : QueryLinkService(p, c)
    \/ \E p \in Callers, c \in Conns : QueryCommit(p, c)
    \/ \E p \in Callers, c \in Conns : QueryRollback(p, c)
    \/ \E p \in Callers : AnswerCreatePackage(p)

SpecPool == Init /\ [][NextPool]_vars

\* Sign-ups of two request handlers.
NextUsers ==
    \/ \E p \in Callers, e \in Emails : PostUsers(p, e)
    \/ \E p \in Callers : GetUserByEmail(p)
    \/ \E p \in Callers : CreateUser(p)
    \/ \E p \in Callers : ReturnUser(p)

SpecUsers == Init /\ [][NextUsers]_vars

\* ----------------------------------------------------------- properties

\* No two active rows of the parent hold the same position.
DistinctOrders(store, tbl, parent) ==
    \A r, q \in ActiveIn(store, tbl, parent) :
        r # q => store[r].display_order # store[q].display_order

Listed(c, k) == call[c].list[k].id

\* The element at index k names a row of the parent the request was sent for.
Matched(c, k) ==
    /\ Listed(c, k) \in RowIds
    /\ InScope(rows, Listed(c, k), call[c].tbl, call[c].parent)

DistinctIds(list) ==
    \A j, k \in DOMAIN list : j # k => list[j].id # list[k].id

\* Index of the last element of the list that names id.
LastIndex(list, id) ==
    CHOOSE k \in DOMAIN list :
        list[k].id = id /\ \A j \in DOMAIN list : list[j].id = id => j <= k

\* The list is a permutation of all the active rows of the parent.
FullPermutation(c) ==
    /\ call[c].list # <<>>
    /\ DistinctIds(call[c].list)
    /\ Range(call[c].list) = ActiveIn(rows, call[c].tbl, call[c].parent)

\* C1: in a state where a reorder call has completed, with success or with an
\* error, no two active children of any parent (owner for sections, section
\* for services, section for packages) hold the same position.
C1_UniqueAfterReorder ==
    Finished(1) => \A t \in Tables, p \in Parents : DistinctOrders(rows, t, p)

C1_Witness ==
    /\ call[1].pc = "failed"
    /\ Cardinality(ActiveIn(rows, call[1].tbl, call[1].parent)) >= 2
    /\ \E k \in DOMAIN call[1].list :
          Matched(1, k) /\ rows[Listed(1, k)].display_order >= OFFSET

\* C2: a reorder call run alone whose list is a permutation of all the active
\* children of the parent returns success, and the fetch that follows returns
\* the children in the order of the list at positions 1..N.
C2_PermutationApplied ==
    (Finished(1) /\ alone[1] /\ FullPermutation(1)) =>
        /\ call[1].pc = "done"
        /\ ListActive(rows, call[1].tbl, call[1].parent)
              = {ClientList([k \in DOMAIN call[1].list |-> Listed(1, k)])}

\* C3: a reorder call run alone over a list of distinct ids never has a write
\* rejected by the uniqueness constraint (it never ends with the error).
C3_NoRejectedWrite ==
    (Finished(1) /\ alone[1] /\ DistinctIds(call[1].list)) => call[1].pc # "failed"

\* C4: while reorder calls are between their writes, a fetch of the children
\* of any parent never returns two rows with the same position.
C4_ReaderSeesDistinctOrders ==
    (\E c \in Callers : InFlight(c)) =>
        \A t \in Tables, p \in Parents :
            \A s \in ListActive(rows, t, p) :
                \A j, k \in DOMAIN s : j # k => s[j].order # s[k].order

C4_Witness ==
    /\ InFlight(1) /\ InFlight(2)
    /\ call[1].parent = call[2].parent
    /\ \E s \in ListActive(rows, "services", call[1].parent) :
          Len(s) >= 2 /\ s[1].order < OFFSET /\ s[Len(s)].order >= OFFSET

\* C5: when two reorder requests for the services of one section that name a
\* common row have both ended, however their writes interleaved, no two active
\* services of the section hold the same position.
C5_UniqueAfterRace ==
    (/\ Finished(1) /\ Finished(2)
     /\ call[1].parent = call[2].parent
     /\ Range(call[1].list) \cap Range(call[2].list) # {}) =>
        DistinctOrders(rows, "services", call[1].parent)

C5_Witness ==
    /\ call[1].pc = "done" /\ call[2].pc = "done"
    /\ call[1].parent = call[2].parent
    /\ ~alone[1] /\ ~alone[2]
    /\ Len(call[1].list) = 2 /\ DistinctIds(call[1].list)
    /\ Range(call[1].list) = Range(call[2].list)
    /\ call[1].list # call[2].list
    /\ \A r \in RowIds : Exists(rows, r) => rows[r].is_active

\* C6: the same reorder input applied a second time right after the first
\* leaves the store as the first application left it.
C6_RepeatChangesNothing ==
    (Finished(1) /\ call[1].rep = 2 /\ alone[1]) => rows = after1[1]

C6_Witness ==
    /\ Finished(1) /\ call[1].rep = 2 /\ alone[1]
    /\ Len(call[1].list) = 2 /\ DistinctIds(call[1].list)
    /\ \A k \in DOMAIN call[1].list : Matched(1, k)

\* C7 as claimed: after a successful reorder run alone the position stored for
\* each listed row is the order value the caller supplied for that element.
C7_StoredIsSuppliedOrder ==
    (call[1].pc = "done" /\ alone[1]) =>
        \A k \in DOMAIN call[1].list :
            Matched(1, k) => rows[Listed(1, k)].display_order = call[1].list[k].order

\* C7 as amended: after a successful reorder run alone the position stored for
\* each listed row is the 1-based array index of the (last) element naming it,
\* whatever order value the caller supplied.
C7_StoredIsArrayIndex ==
    (call[1].pc = "done" /\ alone[1]) =>
        \A k \in DOMAIN call[1].list :
            Matched(1, k) =>
                rows[Listed(1, k)].display_order = LastIndex(call[1].list, Listed(1, k))

C7_Witness ==
    /\ call[1].pc = "done" /\ alone[1]
    /\ \E k \in DOMAIN call[1].list :
          /\ Matched(1, k)
          /\ call[1].list[k].order # k
          /\ rows[Listed(1, k)].display_order = k

\* C8: a write of a reorder call changes no row that its list does not name:
\* unlisted children of the parent, rows of other parents and rows of the
\* other tables stay as they are.
C8_UnlistedUntouched ==
    [][(InFlight(1) /\ call'[1] # call[1]) =>
          \A r \in RowIds \ Range(call[1].list) : rows'[r] = rows[r]]_vars

C8_Witness ==
    /\ call[1].pc = "done"
    /\ \E k \in DOMAIN call[1].list : Matched(1, k)
    /\ \E r \in ActiveIn(rows, call[1].tbl, call[1].parent) : r \notin Range(call[1].list)
    /\ \E r \in RowIds : Exists(rows, r) /\ rows[r].tbl # call[1].tbl

C10_InactiveRowKeepsOrder ==
    Finished(1) =>
        \A r \in RowIds :
            inactive0[1][r] > 0 => rows[r].display_order = inactive0[1][r]

\* C11: on each of the three reorder routes a request whose list field is
\* missing or is not an array is answered 400 and performs no position write.
C11_MalformedListRejected ==
    /\ [](\A c \in Callers :
            (call[c].pc # "idle" /\ call[c].body \in BodyKinds \ {"array"}) =>
                Status(c) = 400)
    /\ [][\A c \in Callers :
            (call[c].pc = "idle" /\ call'[c].body \in BodyKinds \ {"array"}) =>
                rows' = rows]_vars

\* Two elements of the list carry the same order value.
DuplicateOrders(list) ==
    \E j, k \in DOMAIN list : j # k /\ list[j].order = list[k].order

\* C12 as claimed: a reorder request whose elements carry duplicate order
\* values fails and is answered 500.
C12_DuplicateOrdersFail ==
    (Finished(1) /\ DuplicateOrders(call[1].list)) => Status(1) = 500

\* C12 as amended: the order values are not read, so a request with duplicate
\* order values is served like any other.  Run alone it fails only at an element
\* that names a row of the parent whose target position (1000 + i or i + 1)
\* another row of the parent holds, and when it succeeds every listed row of
\* the parent is at its own 1-based index.
C12_DuplicateOrdersIgnored ==
    (Finished(1) /\ alone[1] /\ DuplicateOrders(call[1].list)) =>
        /\ call[1].pc = "failed" =>
              /\ Matched(1, call[1].i)
              /\ \E r \in RowIds \ {Listed(1, call[1].i)} :
                    /\ InScope(rows, r, call[1].tbl, call[1].parent)
                    /\ rows[r].display_order
                          \in {TempOrder(call[1].i), FinalOrder(call[1].i)}
        /\ call[1].pc = "done" =>
              \A k \in DOMAIN call[1].list :
                  Matched(1, k) =>
                      rows[Listed(1, k)].display_order
                          = LastIndex(call[1].list, Listed(1, k))

C12_Witness ==
    /\ call[1].pc = "done" /\ alone[1]
    /\ DuplicateOrders(call[1].list)
    /\ DistinctIds(call[1].list)
    /\ \A k \in DOMAIN call[1].list : Matched(1, k)

\* The ids of a fetch of the active children of the parent, in the order
\* returned.
FetchIds(store, tbl, parent) ==
    {[k \in DOMAIN f |-> f[k].id] : f \in ListActive(store, tbl, parent)}

\* C13: a reorder of the full active child set of a parent, run alone and
\* stopped after any number of its writes, leaves the stored order reflecting
\* the writes applied: in the first loop the rows already displaced sort after
\* all the rows not yet displaced and in list order among themselves; in the
\* second loop a fetch returns the children in exactly the requested order.
C13_InterruptedOrderKept ==
    (InFlight(1) /\ alone[1] /\ FullPermutation(1)) =>
        LET l == call[1].list
            i == call[1].i
            pos(k) == rows[Listed(1, k)].display_order
        IN  /\ call[1].pc = "displace" =>
                  /\ \A j \in 1 .. i - 1, k \in i .. Len(l) : pos(k) < pos(j)
                  /\ \A j, k \in 1 .. i - 1 : j < k => pos(j) < pos(k)
            /\ call[1].pc = "settle" =>
                  FetchIds(rows, call[1].tbl, call[1].parent)
                      = {[k \in DOMAIN l |-> l[k].id]}

\* C14: a reorder request with an empty list is answered with the success and
\* leaves every stored position as it is.
C14_EmptyListNoOp ==
    /\ [][\A c \in Callers :
            (/\ call'[c] # call[c]
             /\ call'[c].body = "array"
             /\ call'[c].asked = <<>>) =>
                rows' = rows /\ call'[c].pc # "failed"]_vars
    /\ [](\A c \in Callers :
            (Finished(c) /\ call[c].body = "array" /\ call[c].asked = <<>>) =>
                Status(c) = 200)

C14_Witness ==
    /\ call[1].body = "array" /\ call[1].asked = <<>>
    /\ Status(1) = 200
    /\ Cardinality(ActiveIn(rows, call[1].tbl, call[1].path)) >= 2

ActiveAscending(list, tbl, parent) ==
    /\ \A k \in DOMAIN list :
          /\ InScope(rows, list[k].id, tbl, parent)
          /\ rows[list[k].id].is_active
          /\ list[k].order = rows[list[k].id].display_order
    /\ \A j, k \in DOMAIN list : j < k => list[j].order <= list[k].order

\* C16: in every reachable state the menu of an owner holds active rows only,
\* the sections of the owner in ascending order of position and, in every
\* section, its services and its packages in ascending order of position.
C16_MenuActiveAndSorted ==
    \A u \in Users :
        LET menu == GetMenuData(rows, members, u) IN
        /\ ActiveAscending(menu, "service_sections", u)
        /\ \A k \in DOMAIN menu :
              /\ ActiveAscending(menu[k].services, "services", menu[k].id)
              /\ ActiveAscending(menu[k].packages, "service_packages", menu[k].id)

C16_Witness ==
    \E u \in Users :
        LET menu == GetMenuData(rows, members, u) IN
        /\ Len(menu) = 2
        /\ menu[1].id > menu[2].id
        /\ \E r \in RowIds :
              InScope(rows, r, "service_sections", u) /\ ~rows[r].is_active

\* C17: a creation under a parent that does not exist or is inactive inserts
\* no row: every step that inserts a service or a package finds its section
\* stored and active, every step that inserts a section finds its owner.
C17_NoCreateUnderMissingParent ==
    [][\A r \in RowIds :
          (~Exists(rows, r) /\ Exists(rows', r)) =>
              IF rows'[r].tbl = "service_sections"
              THEN rows'[r].parent \in Users
              ELSE /\ Exists(rows, rows'[r].parent)
                   /\ rows[rows'[r].parent].tbl = "service_sections"
                   /\ rows[rows'[r].parent].is_active]_vars

\* C18: every package in the store has at least one membership row.
C18_PackageHasServices ==
    \A r \in RowIds :
        (Exists(rows, r) /\ rows[r].tbl = "service_packages") =>
            PackageServices(members, r) # {}

\* The packages of the menus of all owners: package id -> ids of its services.
MenuPackages(store, mem) ==
    UNION {UNION {{menu[k].packages[j] : j \in DOMAIN menu[k].packages} :
                     k \in DOMAIN menu} :
             menu \in {GetMenuData(store, mem, u) : u \in Users}}

\* C19: once a service is deleted, no package of any menu lists its id, and the
\* deletion of a service takes no package out of the menus.
C19_DeletedServiceNotListed ==
    /\ [](\A pkg \in MenuPackages(rows, members) :
            \A sv \in pkg.services : Exists(rows, sv) /\ rows[sv].is_active)
    /\ [][\A id \in RowIds :
            (/\ rows[id].tbl = "services"
             /\ rows[id].is_active /\ ~rows'[id].is_active) =>
                {pkg.id : pkg \in MenuPackages(rows', members')}
                    = {pkg.id : pkg \in MenuPackages(rows, members)}]_vars

\* C20 (as stated): one apiCall issues at most two HTTP requests, the second
\* one only after a network failure of the first attempt.
C20_AtMostTwoRequests ==
    /\ api.sent + api.probes <= 2
    /\ api.sent = 2 => api.first = "network"

\* C20 (amended): one apiCall sends its own request at most twice, the second
\* time only after a network failure of the first attempt and never after an
\* HTTP error status; the health requests of an address discovery come on top.
C20_OneRetryAfterNetworkFailure ==
    /\ api.sent <= 2
    /\ api.sent = 2 => api.first = "network"
    /\ api.first \in {"ok", "http"} => api.sent = 1 /\ api.pc \in {"ok", "failed"}

C20_Witness ==
    /\ api.pc = "ok"
    /\ api.sent = 2
    /\ api.first = "network"
    /\ api.probes > 2

\* The request the client repeats reaches the server after the first attempt
\* stored its row: the step of the second fetch, answered or not.
RetryOfStored ==
    /\ api.pc = "refetch"
    /\ api.stored # 0
    /\ api'.pc # "refetch"
    /\ api'.status # 0

\* C21 (as stated): the retry of a create whose first attempt stored its row
\* inserts a second row for the same entity.
C21_RetryInsertsDuplicate ==
    [][RetryOfStored =>
          \E r \in RowIds :
             /\ ~Exists(rows, r)
             /\ InScope(rows', r, api.tbl, api.parent)
             /\ rows'[r].name = api.name]_vars

\* C21 (amended): the retry of a create whose first attempt stored its row is
\* answered 500 and writes nothing, and no two rows of a parent share a name.
C21_RetryRejected ==
    /\ [](\A r, q \in RowIds :
            (/\ Exists(rows, r) /\ Exists(rows, q)
             /\ rows[r].tbl = rows[q].tbl /\ rows[r].parent = rows[q].parent
             /\ rows[r].name = rows[q].name) => r = q)
    /\ [][RetryOfStored =>
            /\ api'.status = 500
            /\ rows' = rows
            /\ members' = members]_vars

\* The retry was rejected although the stored row had left the position of
\* the request.
C21_Witness ==
    /\ api.pc = "failed"
    /\ api.sent = 2
    /\ api.stored # 0
    /\ api.status = 500
    /\ rows[api.stored].display_order # api.order
    /\ ~OrderTaken(rows, api.tbl, api.parent, api.order, 0)

\* The UPDATE the call of handler c issues next: element i of its list, to
\* 1000 + (i - 1) in the first loop and to i in the second.
NextWrite(c) ==
    LET cl == call[c] IN
    UpdateOrder(rows, cl.tbl,
                IF cl.pc = "displace" THEN TempOrder(cl.i) ELSE FinalOrder(cl.i),
                cl.list[cl.i].id, cl.parent)

\* C22: every step of a reorder call is the one write of its next element;
\* the settle writes start only after the displace write of the last element;
\* a write that raises an error changes nothing, ends the call, and the call
\* writes no more.
C22_WritesInSequence ==
    [][\A c \in Callers :
          LET cl == call[c] IN
          /\ (InFlight(c) /\ call'[c] # cl) =>
                /\ rows' = NextWrite(c).store
                /\ IF NextWrite(c).status = "error"
                   THEN call'[c] = [cl EXCEPT !.pc = "failed"]
                   ELSE IF cl.i < Len(cl.list)
                        THEN call'[c] = [cl EXCEPT !.i = cl.i + 1]
                        ELSE call'[c] =
                               [cl EXCEPT !.i = 1,
                                          !.pc = IF cl.pc = "displace"
                                                 THEN "settle" ELSE "done"]
          /\ (call'[c].pc = "settle" /\ cl.pc # "settle") =>
                cl.pc = "displace" /\ cl.i = Len(cl.list)
          /\ cl.pc = "failed" => call'[c] = cl]_vars

\* A call that failed after its first write, a listed row still displaced.
C22_Witness ==
    \E c \in Callers :
        /\ call[c].pc = "failed"
        /\ call[c].i > 1
        /\ \E k \in 1 .. call[c].i - 1 :
              /\ MatchRows(rows, call[c].tbl, call[c].list[k].id, call[c].parent) # {}
              /\ rows[call[c].list[k].id].display_order >= OFFSET

\* C23: when two racing reorder calls for the full child set of one parent
\* have both returned success, every child holds the index one of the two
\* lists gave it, and none is left at 1000 or above.
C23_RaceMergesRequests ==
    (/\ call[1].pc = "done" /\ call[2].pc = "done"
     /\ call[1].tbl = call[2].tbl /\ call[1].parent = call[2].parent
     /\ FullPermutation(1) /\ FullPermutation(2)) =>
        \A r \in Range(call[1].list) :
            /\ rows[r].display_order \in {LastIndex(call[1].list, r),
                                          LastIndex(call[2].list, r)}
            /\ rows[r].display_order < OFFSET

\* Both calls succeeded on two children, asking for opposite orders, each
\* having seen writes of the other.
C23_Witness ==
    /\ call[1].pc = "done" /\ call[2].pc = "done"
    /\ call[1].tbl = call[2].tbl /\ call[1].parent = call[2].parent
    /\ FullPermutation(1) /\ FullPermutation(2)
    /\ Len(call[1].list) = 2
    /\ call[1].list # call[2].list
    /\ ~alone[1] /\ ~alone[2]

\* C24: a reorder call that ran while a call for another parent or table
\* wrote its rows ends as it would have alone, with success when it succeeds
\* alone, and leaves the rows of its own parent as the run alone leaves them.
C24_ScopesIndependent ==
    \A c \in Callers :
        (Finished(c) /\ began[c] # <<>>) =>
            LET solo == RunAlone(began[c], call[c].tbl, call[c].parent, call[c].list)
            IN  /\ call[c].pc = "done" <=> solo.status = "ok"
                /\ \A r \in RowIds :
                      InScope(rows, r, call[c].tbl, call[c].parent) =>
                          rows[r] = solo.store[r]

\* The services and the packages of one section reordered at the same time,
\* both calls ended with success, each having seen writes of the other.
C24_Witness ==
    /\ call[1].pc = "done" /\ call[2].pc = "done"
    /\ call[1].parent = call[2].parent
    /\ call[1].tbl = "services" /\ call[2].tbl = "service_packages"
    /\ call[1].list # <<>> /\ call[2].list # <<>>
    /\ ~alone[1] /\ ~alone[2]

\* C25: when a reorder request for the services or the packages of a section
\* that lists all the active children of the section has been answered with
\* the success, no other request having written meanwhile, the children hold
\* the positions 1..N in the order of the list.
C25_SectionChildrenReordered ==
    \A c \in Callers :
        (/\ call[c].pc = "done" /\ alone[c]
         /\ call[c].tbl \in {"services", "service_packages"}
         /\ call[c].asked # <<>>
         /\ DistinctIds(call[c].asked)
         /\ Range(call[c].asked) = ActiveIn(rows, call[c].tbl, call[c].path)) =>
            \A k \in DOMAIN call[c].asked :
                rows[call[c].asked[k].id].display_order = k

\* C26: a reorder call run alone with a permutation of all the active
\* children of a parent, started when an earlier call had left a child at 1000
\* or above, returns success and leaves the children at 1..N in list order.
C26_ReorderRecovers ==
    (/\ Finished(1) /\ alone[1] /\ FullPermutation(1)
     /\ began[1] # <<>>
     /\ \E r \in Range(call[1].list) : began[1][r].display_order >= OFFSET) =>
        /\ call[1].pc = "done"
        /\ \A k \in DOMAIN call[1].list : rows[Listed(1, k)].display_order = k

\* First positive integer that is not in S.
SmallestUnused(S) ==
    CHOOSE i \in 1 .. Cardinality(S) + 1 : i \notin S /\ \A j \in 1 .. i - 1 : j \in S

\* C27: with the menu loaded, the position the section dialog sends is the
\* smallest positive integer no section of the screen carries, no stored
\* section of the owner holds it, and the creation is accepted.
C27_SectionDialogPositionFree ==
    (ui.loaded /\ ui.sent.tbl = "service_sections") =>
        /\ ui.sent.order = SmallestUnused(ui.sent.shown)
        /\ ~ui.sent.held
        /\ ui.sent.status = 201

\* C28: with the menu loaded, the position the service dialog sends, the count
\* of the services shown plus one, is held by no stored service of the section,
\* and the creation is accepted.
C28_ServiceDialogPositionFree ==
    (ui.loaded /\ ui.sent.tbl = "services") =>
        /\ ~ui.sent.held
        /\ ui.sent.status = 201

\* C29: once createPackage has failed, the store holds neither the package row
\* the call inserted nor a membership row of that package.
C29_CreatePackageAllOrNothing ==
    \A p \in Callers :
        creating[p].pc = "failed" =>
            /\ ~Exists(rows, creating[p].packageId)
            /\ \A m \in members : m[1] # creating[p].packageId

\* C30: every answered POST /api/users carries status 200 and the id of the one
\* row of its address, two answers for the same address carry the same id, and
\* no address has two rows.
C30_CreateUserIdempotent ==
    /\ \A p \in Callers :
          posting[p].pc = "answered" =>
              /\ posting[p].status = 200
              /\ {u.id : u \in {x \in users : x.email = posting[p].email}}
                    = {posting[p].id}
    /\ \A p, q \in Callers :
          (/\ posting[p].pc = "answered" /\ posting[q].pc = "answered"
           /\ posting[p].email = posting[q].email) => posting[p].id = posting[q].id
    /\ \A e \in Emails : Cardinality({u \in users : u.email = e}) <= 1

====
